---- MODULE Spec2Model ----
(***************************************************************************)
(* F1 dashboard: the lap-record normaliser (get_lap_data), the tyre        *)
(* strategy data (get_strategy_data, plot_tyre_strategy), the cumulative   *)
(* gap analysis (plot_gap_analysis), the summary metrics                   *)
(* (create_summary_metrics) and the tyre-degradation simulator of app.py.  *)
(*                                                                         *)
(* Lap times are integers in tenths of a second; a pandas DataFrame is a   *)
(* sequence of records (its rows, in index order).                         *)
(***************************************************************************)
EXTENDS Integers, Sequences, FiniteSets, TLC

VARIABLES
    session,         \* the loaded race session, or None (isNone)
    drivers,         \* the driver list handed to the data functions
    lap_data,        \* what get_lap_data returned
    strategy_data,   \* what get_strategy_data returned
    strategy_chart,  \* what plot_tyre_strategy drew
    strategy_stats,  \* the Strategy Statistics table of the Tyre Strategy tab
    gap_chart,       \* what plot_gap_analysis drew and reported
    metrics,         \* what create_summary_metrics returned
    sim_in,          \* the Strategy Simulator's widget values
    model,           \* the loaded preprocessor and model (external)
    sim_out,         \* what the last "Run Simulation" click did
    sim_log,         \* the inputs and the outcome of every click so far
    telemetry,       \* what the last get_telemetry_data call was given and returned
    main             \* the run of main(): where it is and what it has passed

vars == <<session, drivers, lap_data, strategy_data, strategy_chart, strategy_stats,
          gap_chart, metrics, sim_in, model, sim_out, sim_log, telemetry, main>>

(***************************************************************************)
(* Bounds of the model.                                                    *)
(***************************************************************************)
\* lap rows of the driver whose rows are enumerated in any order
MaxRows == 3
\* lap numbers of a race in the gap and summary inputs
MaxLap == 3
\* longest simulated stint (the slider allows up to 50)
MaxStint == 6
\* clicks on "Run Simulation" that are followed
MaxClicks == 3

(***************************************************************************)
(* Values.                                                                 *)
(***************************************************************************)
\* a missing lap time (pandas NaT / NaN)
NaT == 0
\* a missing position (NaN)
NoPosition == 0
\* Python's None as previous_compound, and the two ways a compound is missing
None == "None"
NaN == "NaN"

AllDrivers == <<"ALO", "HAM", "VER">>
\* position of a driver code in sorted order (groupby sorts its keys)
DriverRank(d) == CHOOSE i \in 1..Len(AllDrivers) : AllDrivers[i] = d

RealCompounds == {"SOFT", "MEDIUM"}
LapTimes == {900, 905}
\* the lap time of the driver whose pace is kept constant
SteadyTimes == {902}

\* pd.isna on a compound
isna(c) == c \in {None, NaN}
\* Python's != on two compounds: NaN differs from everything, itself included
PyNe(a, b) == IF a = NaN \/ b = NaN THEN TRUE ELSE a # b

(***************************************************************************)
(* Sequence helpers.                                                       *)
(***************************************************************************)
Range(s) == {s[i] : i \in 1..Len(s)}

RECURSIVE SumSeq(_)
SumSeq(s) == IF s = <<>> THEN 0 ELSE Head(s) + SumSeq(Tail(s))

RECURSIVE Flatten(_)
Flatten(ss) == IF ss = <<>> THEN <<>> ELSE Head(ss) \o Flatten(Tail(ss))

RECURSIVE SortedSeq(_)
SortedSeq(S) ==
    IF S = {} THEN <<>>
    ELSE LET m == CHOOSE x \in S : \A y \in S : x <= y
         IN <<m>> \o SortedSeq(S \ {m})

\* the values of s in order of first appearance (Series.unique)
RECURSIVE unique(_)
unique(s) ==
    IF s = <<>> THEN <<>>
    ELSE LET r == unique(SubSeq(s, 1, Len(s) - 1))
             x == s[Len(s)]
         IN IF x \in Range(r) THEN r ELSE Append(r, x)

\* the rows of driver d in a frame, in index order
RowsOf(rows, d) == SelectSeq(rows, LAMBDA r : r.Driver = d)
DriversIn(rows) == {rows[i].Driver : i \in 1..Len(rows)}

\* session.laps.pick_drivers(driver): that driver's rows, in session order
pick_drivers(sess, driver) ==
    IF driver \in DOMAIN sess.laps THEN sess.laps[driver] ELSE <<>>

(***************************************************************************)
(* get_lap_data.calculate_tyre_age: one scan of a driver's rows in index   *)
(* order; the result is the sequence of TyreAge values.                    *)
(***************************************************************************)
RECURSIVE tyre_age_scan(_, _, _, _)
tyre_age_scan(compounds, i, current_age, previous_compound) ==
    IF i > Len(compounds) THEN <<>>
    ELSE LET c == compounds[i]
             age == IF isna(c) \/ PyNe(previous_compound, c)
                    THEN 1 ELSE current_age + 1
         IN <<age>> \o tyre_age_scan(compounds, i + 1, age, c)

\* calculate_tyre_age with the reset decided by "compound not used before"
\* instead of "differs from the previous row's compound"
RECURSIVE tyre_age_scan_seen(_, _, _, _)
tyre_age_scan_seen(compounds, i, current_age, seen) ==
    IF i > Len(compounds) THEN <<>>
    ELSE LET c == compounds[i]
             age == IF isna(c) \/ c \notin seen THEN 1 ELSE current_age + 1
         IN <<age>> \o tyre_age_scan_seen(compounds, i + 1, age, seen \cup {c})

calculate_tyre_age_seen(driver_data) ==
    tyre_age_scan_seen([i \in 1..Len(driver_data) |-> driver_data[i].Compound],
                       1, 0, {})

calculate_tyre_age(driver_data) ==
    tyre_age_scan([i \in 1..Len(driver_data) |-> driver_data[i].Compound],
                  1, 0, None)

\* groupby('Driver', group_keys=False).apply(calculate_tyre_age): every
\* driver's rows are scanned in index order, and the rows keep their index
apply_tyre_age(combined) ==
    [i \in 1..Len(combined) |->
        LET d == combined[i].Driver
            mine == SelectSeq(combined, LAMBDA r : r.Driver = d)
            k == Cardinality({j \in 1..i : combined[j].Driver = d})
        IN [combined[i] EXCEPT !.TyreAge = calculate_tyre_age(mine)[k]]]

Min(S) == CHOOSE x \in S : \A y \in S : x <= y

\* a dropna under which one row without a lap time empties the frame
dropna_all_or_nothing(combined_laps) ==
    IF \E i \in 1..Len(combined_laps) : combined_laps[i].LapTimeSeconds = NaT
    THEN <<>> ELSE combined_laps

\* a dropna that drops nothing
dropna_keep(combined_laps) == combined_laps

\* line 94: combined_laps.dropna(subset=['LapTime'])
dropna(combined_laps) ==
    SelectSeq(combined_laps, LAMBDA r : r.LapTimeSeconds # NaT)

\* the body of get_lap_data past its guard: the rows it returns
lap_rows(sess, drvs) ==
    LET laps_data == [k \in 1..Len(drvs) |->
            LET driver_laps == pick_drivers(sess, drvs[k])
            IN [i \in 1..Len(driver_laps) |->
                   [Driver |-> drvs[k],
                    LapNumber |-> driver_laps[i].LapNumber,
                    LapTimeSeconds |-> driver_laps[i].LapTime,
                    Compound |-> driver_laps[i].Compound,
                    Position |-> driver_laps[i].Position,
                    TyreAge |-> 0,
                    IsPersonalBest |-> FALSE,
                    GapToFastest |-> 0]]]
        concat == Flatten(laps_data)
        dropped == dropna(concat)
        fastest == Min({dropped[i].LapTimeSeconds : i \in 1..Len(dropped)})
        best(d) == Min({dropped[i].LapTimeSeconds :
                          i \in {j \in 1..Len(dropped) : dropped[j].Driver = d}})
        derived == [i \in 1..Len(dropped) |->
            [dropped[i] EXCEPT
                !.IsPersonalBest = (dropped[i].LapTimeSeconds = best(dropped[i].Driver)),
                !.GapToFastest = dropped[i].LapTimeSeconds - fastest]]
    IN IF dropped = <<>> THEN <<>> ELSE apply_tyre_age(derived)

\* _session.get_driver(driver) (lines 86-87, 177) is called for a driver whose
\* rows are not empty, and raises when the session holds no information on
\* that driver
get_driver_raises(sess, drvs) ==
    \E k \in 1..Len(drvs) :
        pick_drivers(sess, drvs[k]) # <<>> /\ drvs[k] \in sess.noDriverInfo

\* the try block of get_lap_data (lines 77-128): an exception in it is caught,
\* reported once with st.error, and the empty frame of line 130 is returned
lap_data_try(sess, drvs) ==
    IF sess.isNone \/ get_driver_raises(sess, drvs)
    THEN [called |-> TRUE, rows |-> <<>>, errors |-> 1]
    ELSE [called |-> TRUE, rows |-> lap_rows(sess, drvs), errors |-> 0]

\* get_lap_data without the guard of lines 74-75
lap_data_result_noguard(sess, drvs) == lap_data_try(sess, drvs)

\* get_lap_data(_session, drivers): the guard of lines 74-75, then the try block
lap_data_result(sess, drvs) ==
    IF sess.isNone \/ drvs = <<>>
    THEN [called |-> TRUE, rows |-> <<>>, errors |-> 0]
    ELSE lap_data_try(sess, drvs)

NotCalled == [called |-> FALSE, rows |-> <<>>, errors |-> 0]

get_lap_data ==
    /\ lap_data' = lap_data_result(session, drivers)
    /\ UNCHANGED <<session, drivers, strategy_data, strategy_chart, strategy_stats,
                   gap_chart, metrics, sim_in, model, sim_out, sim_log,
                   telemetry, main>>

(***************************************************************************)
(* get_strategy_data: every row of every selected driver (rows without a   *)
(* lap time included), with a TyreAge column computed by its own loop.     *)
(***************************************************************************)
RECURSIVE strategy_age_scan(_, _, _, _)
strategy_age_scan(compounds, i, current_age, previous_compound) ==
    IF i > Len(compounds) THEN <<>>
    ELSE LET c == compounds[i]
             age == IF PyNe(previous_compound, c) THEN 1 ELSE current_age + 1
         IN <<age>> \o strategy_age_scan(compounds, i + 1, age, c)

strategy_rows(sess, drvs) ==
    Flatten([k \in 1..Len(drvs) |->
        LET driver_laps == pick_drivers(sess, drvs[k])
            ages == strategy_age_scan(
                        [i \in 1..Len(driver_laps) |-> driver_laps[i].Compound],
                        1, 0, None)
        IN [i \in 1..Len(driver_laps) |->
               [Driver |-> drvs[k],
                LapNumber |-> driver_laps[i].LapNumber,
                LapTime |-> driver_laps[i].LapTime,
                Compound |-> driver_laps[i].Compound,
                Position |-> driver_laps[i].Position,
                TyreAge |-> ages[i]]]])

\* the columns of the session's lap rows (the session data provider's schema)
LapsColumns == {"Driver", "LapNumber", "LapTime", "Compound", "Position", "Team"}
\* the columns of the frame get_strategy_data returns
strategy_columns == LapsColumns \cup {"Driver", "DriverName", "TyreAge"}

strategy_data_try(sess, drvs) ==
    IF sess.isNone \/ get_driver_raises(sess, drvs)
    THEN [called |-> TRUE, rows |-> <<>>, errors |-> 1]
    ELSE [called |-> TRUE, rows |-> strategy_rows(sess, drvs), errors |-> 0]

strategy_data_result(sess, drvs) ==
    IF sess.isNone \/ drvs = <<>>
    THEN [called |-> TRUE, rows |-> <<>>, errors |-> 0]
    ELSE strategy_data_try(sess, drvs)

get_strategy_data ==
    /\ strategy_data' = strategy_data_result(session, drivers)
    /\ UNCHANGED <<session, drivers, lap_data, strategy_chart, strategy_stats,
                   gap_chart, metrics, sim_in, model, sim_out, sim_log,
                   telemetry, main>>

(***************************************************************************)
(* get_telemetry_data(_session, driver, lap_number). The car data of a lap *)
(* is known by the lap it belongs to; the provider returns samples, an     *)
(* empty frame, or raises.                                                 *)
(***************************************************************************)
CarData == {"samples", "empty", "raises"}

EmptyFrame == [empty |-> TRUE, LapNumber |-> 0, columns |-> {}]

NoTelemetry ==
    [called |-> FALSE, driver |-> None, lap_number |-> 0, car_data |-> "empty",
     result |-> EmptyFrame, errors |-> 0]

\* the lap selected by the lap's number
lap_by_number(driver_laps, lap_number) ==
    SelectSeq(driver_laps, LAMBDA r : r.LapNumber = lap_number)

\* lines 139-143: the lap selected by position, driver_laps.iloc[lap_number - 1]
lap_by_position(driver_laps, lap_number) ==
    IF lap_number > Len(driver_laps) THEN <<>> ELSE <<driver_laps[lap_number]>>

\* lines 135-161: the frame returned and the errors reported
telemetry_result(sess, driver, lap_number, car_data) ==
    IF sess.isNone THEN [result |-> EmptyFrame, errors |-> 0]
    ELSE LET lap == lap_by_position(pick_drivers(sess, driver), lap_number)
         IN IF lap = <<>> THEN [result |-> EmptyFrame, errors |-> 0]
            ELSE IF car_data = "raises" THEN [result |-> EmptyFrame, errors |-> 1]
            ELSE IF car_data = "empty" THEN [result |-> EmptyFrame, errors |-> 0]
            ELSE [result |-> [empty |-> FALSE, LapNumber |-> lap[1].LapNumber,
                              columns |-> {"Speed", "DistanceKm"}],
                  errors |-> 0]

\* one call from the Telemetry tab (app.py 397-398): a selected driver and the
\* slider's lap
get_telemetry_data ==
    /\ \E driver \in Range(drivers) : \E lap_number \in 1..MaxRows :
         \E car_data \in CarData :
            LET r == telemetry_result(session, driver, lap_number, car_data)
            IN telemetry' = [called |-> TRUE, driver |-> driver,
                             lap_number |-> lap_number, car_data |-> car_data,
                             result |-> r.result, errors |-> r.errors]
    /\ UNCHANGED <<session, drivers, lap_data, strategy_data, strategy_chart,
                   strategy_stats, gap_chart, metrics, sim_in, model, sim_out,
                   sim_log, main>>

\* main() is not running: the functions are called on their own
NoMain == [pc |-> "none", passed |-> <<>>, analysis |-> {}, messages |-> <<>>]

(***************************************************************************)
(* plot_tyre_strategy(strategy_data): one bar per row of the frame, from   *)
(* the row's StartLap to its EndLap; without those columns an error is     *)
(* reported and the figure stays empty.                                    *)
(***************************************************************************)
NoChart == [called |-> FALSE, bars |-> <<>>, errors |-> 0]

tyre_strategy_bars(rows) ==
    LET drvs == unique([i \in 1..Len(rows) |-> rows[i].Driver])
    IN Flatten([k \in 1..Len(drvs) |->
          LET driver_stints == SelectSeq(rows, LAMBDA r : r.Driver = drvs[k])
          IN [i \in 1..Len(driver_stints) |->
                 [Driver |-> drvs[k],
                  Compound |-> driver_stints[i].Compound,
                  StartLap |-> driver_stints[i].StartLap,
                  EndLap |-> driver_stints[i].EndLap]]])

tyre_strategy_figure(rows, columns) ==
    IF rows = <<>>
    THEN [called |-> TRUE, bars |-> <<>>, errors |-> 0]
    ELSE IF "StartLap" \notin columns \/ "EndLap" \notin columns
    THEN [called |-> TRUE, bars |-> <<>>, errors |-> 1]
    ELSE IF {"Driver", "Compound"} \ columns # {}
    THEN [called |-> TRUE, bars |-> <<>>, errors |-> 1]
    ELSE [called |-> TRUE, bars |-> tyre_strategy_bars(rows), errors |-> 0]

NoStats == [shown |-> FALSE, raised |-> FALSE, table |-> <<>>]

\* pit stops counted as the compound changes between consecutive rows
pit_stops_changes(driver_data) ==
    Cardinality({i \in 2..Len(driver_data) :
                    driver_data[i].Compound # driver_data[i - 1].Compound})

\* app.py 361: len(driver_data['Compound'].value_counts()) - 1
pit_stops(driver_data) ==
    Cardinality({driver_data[i].Compound : i \in 1..Len(driver_data)}) - 1

\* app.py 367, without a StintLength column:
\* driver_data.groupby('Compound').size().max()
longest_stint(driver_data) ==
    LET size(c) == Cardinality({i \in 1..Len(driver_data) : driver_data[i].Compound = c})
        sizes == {size(driver_data[i].Compound) : i \in 1..Len(driver_data)}
    IN CHOOSE m \in sizes : \A k \in sizes : k <= m

\* app.py 354-372: one table row per selected driver with rows; a missing
\* compound makes ', '.join(compounds_used) raise TypeError, which nothing
\* catches, and no table is shown
strategy_statistics(rows, selected_drivers) ==
    LET present == SelectSeq(selected_drivers, LAMBDA d : RowsOf(rows, d) # <<>>)
    IN IF \E i \in 1..Len(rows) :
             rows[i].Driver \in Range(selected_drivers) /\ isna(rows[i].Compound)
       THEN [shown |-> FALSE, raised |-> TRUE, table |-> <<>>]
       ELSE [shown |-> TRUE, raised |-> FALSE,
             table |-> [k \in 1..Len(present) |->
                LET driver_data == RowsOf(rows, present[k])
                IN [Driver |-> present[k],
                    CompoundsUsed |->
                        unique([i \in 1..Len(driver_data) |-> driver_data[i].Compound]),
                    PitStops |-> pit_stops(driver_data),
                    LongestStint |-> longest_stint(driver_data)]]]

\* the Tyre Strategy tab (app.py 344-372): the chart and the statistics table
\* are made from a non-empty result of get_strategy_data
plot_tyre_strategy ==
    /\ strategy_data.called
    /\ strategy_data.rows # <<>>
    /\ strategy_chart' = tyre_strategy_figure(strategy_data.rows, strategy_columns)
    /\ strategy_stats' = strategy_statistics(strategy_data.rows, drivers)
    /\ UNCHANGED <<session, drivers, lap_data, strategy_data,
                   gap_chart, metrics, sim_in, model, sim_out, sim_log,
                   telemetry, main>>

(***************************************************************************)
(* plot_gap_analysis(lap_data, reference_driver).                          *)
(***************************************************************************)
\* lap_data['Driver'].unique()
available_drivers(rows) == unique([i \in 1..Len(rows) |-> rows[i].Driver])

\* valid_positions[valid_positions['Position'] == 1]['Driver'].value_counts()
leader_count(rows, d) ==
    Cardinality({i \in 1..Len(rows) : rows[i].Driver = d /\ rows[i].Position = 1})
leaders(rows) == {d \in DriversIn(rows) : leader_count(rows, d) > 0}
\* leader_counts.index[0]: a driver with the highest count (the order of
\* equal counts is the sort's choice)
top_leaders(rows) ==
    {d \in leaders(rows) :
        \A e \in leaders(rows) : leader_count(rows, e) <= leader_count(rows, d)}

time_sum(rows, d) == SumSeq([i \in 1..Len(RowsOf(rows, d)) |-> RowsOf(rows, d)[i].LapTimeSeconds])
time_count(rows, d) == Len(RowsOf(rows, d))
\* mean(d) < mean(e), on exact fractions
mean_less(rows, d, e) ==
    time_sum(rows, d) * time_count(rows, e) < time_sum(rows, e) * time_count(rows, d)
\* lap_data.groupby('Driver')[time_col].mean().idxmin(): the first driver, in
\* sorted key order, whose mean is the lowest
mean_idxmin(rows) ==
    CHOOSE d \in DriversIn(rows) :
        \A e \in DriversIn(rows) \ {d} :
            \/ mean_less(rows, d, e)
            \/ (~mean_less(rows, e, d) /\ DriverRank(d) < DriverRank(e))

\* a resolution that ignores the caller's reference
resolve_reference_first(rows, hasPosition, reference_driver) ==
    {available_drivers(rows)[1]}

\* lines 393-407: the drivers the reference can resolve to
resolve_reference(rows, hasPosition, reference_driver) ==
    IF reference_driver # None /\ reference_driver \in DriversIn(rows)
    THEN {reference_driver}
    ELSE IF hasPosition
         THEN IF \E i \in 1..Len(rows) : rows[i].Position # NoPosition
              THEN IF leaders(rows) # {}
                   THEN top_leaders(rows)
                   ELSE {available_drivers(rows)[1]}
              ELSE {mean_idxmin(rows)}
         ELSE {mean_idxmin(rows)}

\* the loop appending the lap's own gap instead of the running sum
RECURSIVE gap_loop_per_lap(_, _, _, _, _)
gap_loop_per_lap(driver_laps, ref_laps, lap_nums, cumulative_gap, acc) ==
    IF lap_nums = <<>> THEN acc
    ELSE LET lap_num == Head(lap_nums)
             driver_lap == SelectSeq(driver_laps, LAMBDA r : r.LapNumber = lap_num)
             ref_lap == SelectSeq(ref_laps, LAMBDA r : r.LapNumber = lap_num)
         IN IF driver_lap # <<>> /\ ref_lap # <<>>
            THEN LET lap_gap == driver_lap[1].LapTimeSeconds - ref_lap[1].LapTimeSeconds
                 IN gap_loop_per_lap(driver_laps, ref_laps, Tail(lap_nums),
                             cumulative_gap + lap_gap,
                             [lap_numbers |-> Append(acc.lap_numbers, lap_num),
                              gaps |-> Append(acc.gaps, lap_gap)])
            ELSE gap_loop_per_lap(driver_laps, ref_laps, Tail(lap_nums), cumulative_gap, acc)

\* the loop carrying the running sum forward as a point at every lap of the
\* driver that the reference lacks
RECURSIVE gap_loop_fill(_, _, _, _, _)
gap_loop_fill(driver_laps, ref_laps, lap_nums, cumulative_gap, acc) ==
    IF lap_nums = <<>> THEN acc
    ELSE LET lap_num == Head(lap_nums)
             driver_lap == SelectSeq(driver_laps, LAMBDA r : r.LapNumber = lap_num)
             ref_lap == SelectSeq(ref_laps, LAMBDA r : r.LapNumber = lap_num)
             lap_gap == IF ref_lap # <<>>
                        THEN driver_lap[1].LapTimeSeconds - ref_lap[1].LapTimeSeconds
                        ELSE 0
         IN gap_loop_fill(driver_laps, ref_laps, Tail(lap_nums),
                          cumulative_gap + lap_gap,
                          [lap_numbers |-> Append(acc.lap_numbers, lap_num),
                           gaps |-> Append(acc.gaps, cumulative_gap + lap_gap)])

\* lines 427-439: the loop over the driver's lap numbers, ascending; acc is
\* the pair of lists (lap_numbers, gaps) built so far
RECURSIVE gap_loop(_, _, _, _, _)
gap_loop(driver_laps, ref_laps, lap_nums, cumulative_gap, acc) ==
    IF lap_nums = <<>> THEN acc
    ELSE LET lap_num == Head(lap_nums)
             driver_lap == SelectSeq(driver_laps, LAMBDA r : r.LapNumber = lap_num)
             ref_lap == SelectSeq(ref_laps, LAMBDA r : r.LapNumber = lap_num)
         IN IF driver_lap # <<>> /\ ref_lap # <<>>
            THEN LET lap_gap == driver_lap[1].LapTimeSeconds - ref_lap[1].LapTimeSeconds
                 IN gap_loop(driver_laps, ref_laps, Tail(lap_nums),
                             cumulative_gap + lap_gap,
                             [lap_numbers |-> Append(acc.lap_numbers, lap_num),
                              gaps |-> Append(acc.gaps, cumulative_gap + lap_gap)])
            ELSE gap_loop(driver_laps, ref_laps, Tail(lap_nums), cumulative_gap, acc)

gap_points(rows, driver, reference_driver) ==
    LET driver_laps == RowsOf(rows, driver)
        ref_laps == RowsOf(rows, reference_driver)
    IN gap_loop(driver_laps, ref_laps,
                SortedSeq({driver_laps[i].LapNumber : i \in 1..Len(driver_laps)}),
                0, [lap_numbers |-> <<>>, gaps |-> <<>>])

\* lines 417-439: the lists the loop built for every compared driver, in available_drivers order
gap_lists(rows, reference_driver) ==
    LET others == SelectSeq(available_drivers(rows), LAMBDA d : d # reference_driver)
    IN [k \in 1..Len(others) |->
          LET pts == gap_points(rows, others[k], reference_driver)
          IN [Driver |-> others[k], lap_numbers |-> pts.lap_numbers, gaps |-> pts.gaps]]

\* a trace for every driver with a point
gap_traces_any(lists) == SelectSeq(lists, LAMBDA t : t.gaps # <<>>)

\* a figure that stays silent when nothing was plotted
no_data_silent(drivers_plotted) == 0

\* lines 459-487: the warning and the "No gap data available" annotation of a
\* figure without a trace
no_data_warnings(drivers_plotted) == IF drivers_plotted > 0 THEN 0 ELSE 1

\* lines 441-457: a trace is added for a driver with more than one point
gap_traces(lists) == SelectSeq(lists, LAMBDA t : t.gaps # <<>> /\ Len(t.gaps) > 1)

gap_figure(rows, supplied, resolved) ==
    LET lists == gap_lists(rows, resolved)
        traces == gap_traces(lists)
    IN [called |-> TRUE,
        supplied |-> supplied,
        reference |-> resolved,
        adjusted_notices |->
            IF supplied = None \/ supplied \notin DriversIn(rows) THEN 1 ELSE 0,
        points |-> lists,
        traces |-> traces,
        no_data_warnings |-> no_data_warnings(Len(traces))]

NoGapChart ==
    [called |-> FALSE, supplied |-> None, reference |-> None,
     adjusted_notices |-> 0, points |-> <<>>, traces |-> <<>>,
     no_data_warnings |-> 0]

\* the Gap Analysis block of the Pace tab (app.py 210-273) on the frame
\* get_lap_data returned; the reference is one of the selected drivers, or
\* the function's default None
plot_gap_analysis ==
    /\ lap_data.called
    /\ lap_data.rows # <<>>
    /\ Len(drivers) > 1
    /\ \E supplied \in Range(drivers) \cup {None} :
         \E resolved \in resolve_reference(lap_data.rows, session.hasPosition, supplied) :
            gap_chart' = gap_figure(lap_data.rows, supplied, resolved)
    /\ UNCHANGED <<session, drivers, lap_data, strategy_data, strategy_chart, strategy_stats,
                   metrics, sim_in, model, sim_out, sim_log,
                   telemetry, main>>

(***************************************************************************)
(* create_summary_metrics(lap_data, session_info).                         *)
(***************************************************************************)
\* the frame's first row taken as the fastest lap
fastest_lap_idx_first(valid_laps) == 1

\* lines 525-532, format_time_safe: "N/A" for a missing time, else the text
\* int(seconds // 60) ":" seconds % 60, kept as its two numbers (the seconds
\* in tenths, the resolution of the lap times)
format_time_safe(seconds) ==
    IF seconds = NaT
    THEN [text |-> "N/A", minutes |-> 0, seconds |-> 0]
    ELSE [text |-> "m:ss", minutes |-> seconds \div 600, seconds |-> seconds % 600]

\* valid_laps['LapTimeSeconds'].idxmin(): the first row with the lowest time
fastest_lap_idx(valid_laps) ==
    CHOOSE i \in 1..Len(valid_laps) :
        /\ \A j \in 1..Len(valid_laps) :
              valid_laps[i].LapTimeSeconds <= valid_laps[j].LapTimeSeconds
        /\ \A j \in 1..(i - 1) :
              valid_laps[j].LapTimeSeconds > valid_laps[i].LapTimeSeconds

\* n times the sum of squared deviations of d's lap times: the sample variance
\* is this over n * n * (n - 1)
spread(rows, d) ==
    LET mine == RowsOf(rows, d)
        n == Len(mine)
        sq == SumSeq([i \in 1..n |-> mine[i].LapTimeSeconds * mine[i].LapTimeSeconds])
    IN n * sq - time_sum(rows, d) * time_sum(rows, d)
\* groupby('Driver')['LapTimeSeconds'].std() is NaN for a driver with one lap
has_std(rows, d) == time_count(rows, d) >= 2
std_less(rows, d, e) ==
    spread(rows, d) * time_count(rows, e) * time_count(rows, e) * (time_count(rows, e) - 1)
      < spread(rows, e) * time_count(rows, d) * time_count(rows, d) * (time_count(rows, d) - 1)
\* std_times.idxmin() over the drivers whose std is not NaN
std_idxmin(rows) ==
    LET ranked == {d \in DriversIn(rows) : has_std(rows, d)}
    IN CHOOSE d \in ranked :
          \A e \in ranked \ {d} :
              \/ std_less(rows, d, e)
              \/ (~std_less(rows, e, d) /\ DriverRank(d) < DriverRank(e))

NoMetrics ==
    [called |-> FALSE, errors |-> 0, keys |-> {},
     fastest_lap |-> [driver |-> None, time |-> format_time_safe(NaT), lap |-> 0],
     fastest_average |-> [driver |-> None, time_sum |-> 0, laps |-> 1],
     most_consistent |-> [driver |-> None]]

\* lines 571-575: an exception anywhere in the function is reported and the
\* empty dict is returned
metrics_failed == [NoMetrics EXCEPT !.called = TRUE, !.errors = 1]

\* lines 494-569; all_na_raises is the pandas build's answer to idxmin() on a
\* series that holds only NaN: older builds return NaN, newer ones raise
\* ValueError
summary_metrics(rows, all_na_raises) ==
    LET valid_laps == SelectSeq(rows, LAMBDA r : r.LapTimeSeconds # NaT)
        fastest_lap == valid_laps[fastest_lap_idx(valid_laps)]
        fastest_avg_driver == mean_idxmin(valid_laps)
        ranked == {d \in DriversIn(valid_laps) : has_std(valid_laps, d)}
    IN IF rows = <<>> \/ valid_laps = <<>>
       THEN [NoMetrics EXCEPT !.called = TRUE]
       ELSE IF ranked = {} /\ all_na_raises
       THEN metrics_failed
       ELSE [called |-> TRUE, errors |-> 0,
             keys |-> {"fastest_lap", "fastest_average", "most_consistent", "race_info"},
             fastest_lap |-> [driver |-> fastest_lap.Driver,
                              time |-> format_time_safe(fastest_lap.LapTimeSeconds),
                              lap |-> fastest_lap.LapNumber],
             fastest_average |-> [driver |-> fastest_avg_driver,
                                  time_sum |-> time_sum(valid_laps, fastest_avg_driver),
                                  laps |-> time_count(valid_laps, fastest_avg_driver)],
             most_consistent |->
                 [driver |-> IF ranked = {} THEN NaN ELSE std_idxmin(valid_laps)]]

\* the Pace tab (app.py 167-168): the metrics of a non-empty lap frame
create_summary_metrics ==
    /\ lap_data.called
    /\ lap_data.rows # <<>>
    /\ \E all_na_raises \in BOOLEAN :
          metrics' = summary_metrics(lap_data.rows, all_na_raises)
    /\ UNCHANGED <<session, drivers, lap_data, strategy_data, strategy_chart, strategy_stats,
                   gap_chart, sim_in, model, sim_out, sim_log,
                   telemetry, main>>

(***************************************************************************)
(* Strategy Simulator (app.py 768-869): one click of "Run Simulation".     *)
(* Predicted lap times are integers in tenths of a second; an adjusted     *)
(* time is kept as a number of ten-thousandths (prediction * factor).      *)
(***************************************************************************)
\* the slider's lowest stint length
MinStint == 5
base_lap_number == 10
Profiles == {"Average Driver", "Championship Contender", "Rookie"}
SimCompounds == {"SOFT", "MEDIUM", "HARD"}
Circuits == {"Bahrain Grand Prix", "Monaco Grand Prix"}
PredTimes == {850, 860, 865}

\* feature rows numbered from 0
sim_df_from_zero(inp) ==
    [k \in 1..inp.stint_length |->
        [TyreAge |-> k - 1,
         LapNumber |-> base_lap_number + k - 1,
         Compound |-> inp.sim_compound,
         TrackID |-> inp.selected_circuit,
         DriverID |-> "Average",
         TeamID |-> "Midfield"]]

\* lines 772-783: one feature row per stint lap
sim_df(inp) ==
    [stint_lap \in 1..inp.stint_length |->
        [TyreAge |-> stint_lap,
         LapNumber |-> base_lap_number + stint_lap,
         Compound |-> inp.sim_compound,
         TrackID |-> inp.selected_circuit,
         DriverID |-> "Average",
         TeamID |-> "Midfield"]]

\* the factors of the two non-average profiles exchanged
skill_factor_swapped(driver_simulation) ==
    IF driver_simulation = "Championship Contender" THEN 1005
    ELSE IF driver_simulation = "Rookie" THEN 995
    ELSE 1000

\* a factor kept from the click before: the profile of the previous run decides
skill_factor_previous(driver_simulation) ==
    LET profile == IF sim_log = <<>> THEN driver_simulation
                   ELSE sim_log[Len(sim_log)].sim_in.driver_simulation
    IN IF profile = "Championship Contender" THEN 995
       ELSE IF profile = "Rookie" THEN 1005
       ELSE 1000

\* lines 789-792: the factor, in thousandths, applied to every prediction
skill_factor(driver_simulation) ==
    IF driver_simulation = "Championship Contender" THEN 995
    ELSE IF driver_simulation = "Rookie" THEN 1005
    ELSE 1000

\* model.predict called once per lap, on that lap's row alone
predict_batches_per_lap(X_processed) == [i \in 1..Len(X_processed) |-> 1]

\* the batches handed to model.predict on one click (line 787)
predict_batches(X_processed) == <<Len(X_processed)>>

\* the "Performance Cliff" metric reads "Beyond stint" (line 850)
BeyondStint == 0
\* one second, in the unit of an adjusted prediction (tenths times thousandths)
OneSecond == 10000

\* a cliff test that also counts a lap exactly one second slower
performance_cliff_ge(predictions) ==
    LET critical_lap == {i \in 1..Len(predictions) :
                            predictions[i] >= predictions[1] + OneSecond}
    IN IF critical_lap # {}
       THEN CHOOSE i \in critical_lap : \A j \in critical_lap : i <= j
       ELSE BeyondStint

\* lines 846-850: np.where(predictions > predictions[0] + 1.0)[0], reported as
\* "Lap critical_lap[0] + 1", or "Beyond stint" when it is empty
performance_cliff(predictions) ==
    LET critical_lap == {i \in 1..Len(predictions) :
                            predictions[i] > predictions[1] + OneSecond}
    IN IF critical_lap # {}
       THEN CHOOSE i \in critical_lap : \A j \in critical_lap : i <= j
       ELSE BeyondStint

\* f"{x:.3f}" and f"{x:.4f}": the multiple of the last shown digit nearest to
\* num / den, as a count of that digit's unit; an exact half goes to the even
\* neighbour
format_fixed(num, den) ==
    LET lo == num \div den
        r == num - lo * den
    IN IF 2 * r < den THEN lo
       ELSE IF 2 * r > den THEN lo + 1
       ELSE IF lo % 2 = 0 THEN lo ELSE lo + 1

\* the time lost at a lap taken as the lap's delta times the laps run
time_lost_flat(predictions, i) == i * (predictions[i] - predictions[1])

\* line 859: sum(predictions[:i+1] - predictions[0]), for the table's row i
time_lost(predictions, i) ==
    SumSeq([j \in 1..i |-> predictions[j] - predictions[1]])

\* lines 833-840: the metrics of "Simulation Results"; a value is kept with the
\* text shown for it (thousandths of a second for .3f, ten-thousandths for .4f)
simulation_results(stint_length, predictions) ==
    LET total == predictions[Len(predictions)] - predictions[1]
    IN [fresh_text |-> format_fixed(predictions[1], 10),
        end_text |-> format_fixed(predictions[Len(predictions)], 10),
        total |-> total,
        total_text |-> format_fixed(total, 10),
        average |-> [num |-> total, den |-> stint_length],
        average_text |-> format_fixed(total, stint_length)]

NoResults ==
    [fresh_text |-> 0, end_text |-> 0, total |-> 0, total_text |-> 0,
     average |-> [num |-> 0, den |-> 1], average_text |-> 0]

\* lines 852-860: the lap-by-lap table
prediction_df(stint_length, predictions) ==
    [i \in 1..stint_length |->
        [StintLap |-> i,
         TyreAge |-> i,
         RaceLap |-> base_lap_number + i,
         PredictedTime |-> predictions[i],
         PredictedTimeText |-> format_fixed(predictions[i], 10),
         DeltaToFresh |-> predictions[i] - predictions[1],
         DeltaToFreshText |-> format_fixed(predictions[i] - predictions[1], 10),
         TimeLost |-> time_lost(predictions, i),
         TimeLostText |-> format_fixed(time_lost(predictions, i), 10)]]

NoRun ==
    [ran |-> FALSE, errors |-> 0, infos |-> 0, shown |-> {},
     transform_calls |-> <<>>, predict_calls |-> <<>>, rows |-> <<>>,
     predictions |-> <<>>, cliff |-> BeyondStint, prediction_df |-> <<>>,
     results |-> NoResults]

\* an except clause that reports the hint as a second error
sim_failure_two_errors(out) == [out EXCEPT !.errors = 2, !.infos = 0]

\* lines 867-869: the except clause reports the error once, then a hint
sim_failure(out) == [out EXCEPT !.errors = 1, !.infos = 1]

\* lines 768-869 from the click on
run_simulation(inp, mdl) ==
    LET rows == sim_df(inp)
        started == [NoRun EXCEPT !.ran = TRUE, !.rows = rows,
                                 !.transform_calls = <<Len(rows)>>]
        f == skill_factor(inp.driver_simulation)
    IN IF mdl.outcome = "transform raises"
       THEN sim_failure(started)
       ELSE IF mdl.outcome = "predict raises"
       THEN sim_failure([started EXCEPT !.predict_calls = predict_batches(rows)])
       ELSE LET predictions == [i \in 1..Len(rows) |-> mdl.curve[i] * f]
            IN [started EXCEPT
                   !.predict_calls = predict_batches(rows),
                   !.predictions = predictions,
                   !.cliff = performance_cliff(predictions),
                   !.results = simulation_results(inp.stint_length, predictions),
                   !.prediction_df = prediction_df(inp.stint_length, predictions),
                   !.shown = {"curve", "confidence band", "statistics", "table"}]

RunSimulation ==
    /\ Len(sim_log) < MaxClicks
    /\ sim_out' = run_simulation(sim_in, model)
    /\ sim_log' = Append(sim_log, [sim_in |-> sim_in, model |-> model,
                                   sim_out |-> sim_out'])
    /\ UNCHANGED <<session, drivers, lap_data, strategy_data, strategy_chart, strategy_stats,
                   gap_chart, metrics, sim_in, model, telemetry, main>>

(***************************************************************************)
(* Sessions.                                                               *)
(***************************************************************************)
NoSession == [isNone |-> TRUE, laps |-> <<>>, hasPosition |-> FALSE, noDriverInfo |-> {}]

InjSeqs(S, n) == {s \in [1..n -> S] : \A i, j \in 1..n : i # j => s[i] # s[j]}

\* lap rows in any index order, with or without a lap time, with a compound
\* or the value `missing` in its place
LapRow(lap, time, compound, position) ==
    [LapNumber |-> lap, LapTime |-> time, Compound |-> compound, Position |-> position]

HamRows == <<LapRow(1, 905, "SOFT", NoPosition), LapRow(2, 900, "SOFT", NoPosition)>>

\* a session of two drivers: HAM with two timed laps on one compound, VER
\* with up to MaxRows rows in any order
StintSession ==
    \E missing \in {NaN, None} :
      \E n \in 0..MaxRows :
        \E ls \in InjSeqs(1..MaxRows, n) :
          \E ts \in [1..n -> {NaT, 900}] :
            \E cs \in [1..n -> RealCompounds \cup {missing}] :
              session =
                [isNone |-> FALSE, hasPosition |-> FALSE, noDriverInfo |-> {},
                 laps |-> [d \in {"HAM", "VER"} |->
                    IF d = "HAM" THEN HamRows
                    ELSE [i \in 1..n |-> LapRow(ls[i], ts[i], cs[i], NoPosition)]]]

\* A race of MaxLap laps for HAM and VER without a Position column: at each
\* lap a driver has no row, a row without a lap time, or a row with a time.
Absent == -1
LapCells == {Absent, NaT} \cup LapTimes
SteadyCells == {Absent, NaT} \cup SteadyTimes

RowsFromCells(cells, pos) ==
    LET present == SortedSeq({n \in 1..MaxLap : cells[n] # Absent})
    IN [k \in 1..Len(present) |->
          LapRow(present[k], cells[present[k]], "SOFT", pos[present[k]])]

TimingSession ==
    \E h \in [1..MaxLap -> SteadyCells] :
      \E v \in [1..MaxLap -> LapCells] :
        session =
          [isNone |-> FALSE, hasPosition |-> FALSE, noDriverInfo |-> {},
           laps |-> [d \in {"HAM", "VER"} |->
                       RowsFromCells(IF d = "HAM" THEN h ELSE v,
                                     [n \in 1..MaxLap |-> NoPosition])]]

\* A race with a Position column in which both drivers complete every lap:
\* each lap is led by HAM, by VER, by a car that is not selected ("ALO"), or
\* its positions are missing.
PositionOf(d, leader) ==
    IF leader = NaN THEN NoPosition
    ELSE IF leader = d THEN 1
    ELSE IF d = "HAM" THEN 2 ELSE 3

PositionSession ==
    \E h \in [1..MaxLap -> SteadyTimes] :
      \E v \in [1..MaxLap -> LapTimes] :
        \E lead \in [1..MaxLap -> {"HAM", "VER", "ALO", NaN}] :
          session =
            [isNone |-> FALSE, hasPosition |-> TRUE, noDriverInfo |-> {},
             laps |-> [d \in {"HAM", "VER"} |->
                         RowsFromCells(IF d = "HAM" THEN h ELSE v,
                                       [n \in 1..MaxLap |-> PositionOf(d, lead[n])])]]

Idle ==
    /\ lap_data = NotCalled
    /\ strategy_data = NotCalled
    /\ strategy_chart = NoChart
    /\ strategy_stats = NoStats
    /\ gap_chart = NoGapChart
    /\ metrics = NoMetrics
    /\ sim_in = [sim_compound |-> "SOFT", stint_length |-> MinStint,
                 selected_circuit |-> "Bahrain Grand Prix",
                 driver_simulation |-> "Average Driver"]
    /\ model = [outcome |-> "ok", curve |-> <<>>]
    /\ sim_out = NoRun
    /\ sim_log = <<>>
    /\ telemetry = NoTelemetry
    /\ main = NoMain

InitStint ==
    /\ (StintSession \/ session = NoSession)
    /\ drivers \in {<<>>, <<"HAM", "VER">>}
    /\ Idle

NextStint == get_lap_data \/ get_strategy_data \/ plot_tyre_strategy

SpecStint == InitStint /\ [][NextStint]_vars

(***************************************************************************)
(* Tyre age and stints.                                                    *)
(***************************************************************************)
\* rows ordered by ascending lap number (lap numbers distinct)
RECURSIVE SortByLap(_)
SortByLap(rows) ==
    IF rows = <<>> THEN <<>>
    ELSE LET m == CHOOSE i \in 1..Len(rows) :
                    \A j \in 1..Len(rows) : rows[i].LapNumber <= rows[j].LapNumber
         IN <<rows[m]>> \o
            SortByLap([k \in 1..(Len(rows) - 1) |-> IF k < m THEN rows[k] ELSE rows[k + 1]])

\* C1: in the frame get_lap_data returns, a row's tyre age is 1 when it is the
\* driver's first row, when its compound is missing, or when its compound
\* differs from the compound of the driver's preceding row (also on a return
\* to a compound used earlier); otherwise it is the preceding row's tyre age
\* plus 1. So it is >= 1 and does not decrease within a run of equal compounds.
C1_TyreAgeRule ==
    lap_data.called =>
        \A d \in DriversIn(lap_data.rows) :
            LET mine == RowsOf(lap_data.rows, d)
            IN \A k \in 1..Len(mine) :
                 /\ mine[k].TyreAge >= 1
                 /\ IF \/ k = 1
                       \/ mine[k].Compound \notin RealCompounds
                       \/ mine[k].Compound # mine[k - 1].Compound
                    THEN mine[k].TyreAge = 1
                    ELSE /\ mine[k].TyreAge = mine[k - 1].TyreAge + 1
                         /\ mine[k].TyreAge >= mine[k - 1].TyreAge

\* a driver went back to a compound used earlier and the age was reset there,
\* and some row continues a run (age 2 or more)
C1_Witness ==
    /\ lap_data.called
    /\ \E d \in DriversIn(lap_data.rows) :
         LET mine == RowsOf(lap_data.rows, d)
         IN \E i, j, k \in 1..Len(mine) :
              /\ i < j /\ j < k
              /\ mine[i].Compound \in RealCompounds
              /\ mine[k].Compound = mine[i].Compound
              /\ mine[j].Compound \in RealCompounds \ {mine[i].Compound}
              /\ mine[k].TyreAge = 1
    /\ \E i \in 1..Len(lap_data.rows) : lap_data.rows[i].TyreAge >= 2

\* C2: the tyre age get_lap_data gives each lap of a driver is the one obtained
\* by scanning that driver's laps in ascending lap-number order, whatever the
\* order of the driver's rows in the session.
C2_TyreAgeInLapOrder ==
    lap_data.called =>
        \A d \in DriversIn(lap_data.rows) :
            LET mine == RowsOf(lap_data.rows, d)
                sorted == SortByLap(mine)
                ages == calculate_tyre_age(sorted)
            IN \A k \in 1..Len(mine) :
                 \A m \in 1..Len(sorted) :
                    sorted[m].LapNumber = mine[k].LapNumber
                        => mine[k].TyreAge = ages[m]

\* C10: with an absent session or an empty driver list, get_lap_data and
\* get_strategy_data return an empty frame and report no error.
C10_EmptyInputsGiveEmptyResult ==
    (session.isNone \/ drivers = <<>>) =>
        /\ lap_data.called => (lap_data.rows = <<>> /\ lap_data.errors = 0)
        /\ strategy_data.called =>
              (strategy_data.rows = <<>> /\ strategy_data.errors = 0)

C10_Witness ==
    /\ session.isNone
    /\ drivers # <<>>
    /\ lap_data.called
    /\ strategy_data.called

\* the laps a bar covers
BarLaps(b) == b.StartLap..b.EndLap

\* C6: the stints drawn for a driver are ordered by start lap, do not overlap,
\* and together cover exactly the laps at which that driver's strategy rows
\* carry a compound.
C6_StintsPartitionLaps ==
    strategy_chart.called =>
        \A d \in DriversIn(strategy_data.rows) :
            LET stints == RowsOf(strategy_chart.bars, d)
                mine == RowsOf(strategy_data.rows, d)
            IN /\ \A i, j \in 1..Len(stints) :
                     i < j => stints[i].EndLap < stints[j].StartLap
               /\ UNION {BarLaps(stints[i]) : i \in 1..Len(stints)}
                    = {mine[i].LapNumber :
                         i \in {j \in 1..Len(mine) : ~isna(mine[j].Compound)}}

InitGap ==
    /\ \/ /\ TimingSession
          /\ drivers = <<"HAM", "VER">>
       \/ /\ PositionSession
          /\ drivers \in {<<"HAM", "VER">>, <<"VER", "HAM">>}
    /\ Idle

NextGap == get_lap_data \/ plot_gap_analysis

SpecGap == InitGap /\ [][NextGap]_vars

(***************************************************************************)
(* Gap analysis against the session's own lap times.                       *)
(***************************************************************************)
\* the lap numbers at which driver d has a row with a lap time in the session
ValidLaps(d) ==
    {session.laps[d][i].LapNumber :
        i \in {j \in 1..Len(session.laps[d]) : session.laps[d][j].LapTime # NaT}}
\* that lap time (lap numbers are distinct within a driver's rows)
ValidTime(d, n) ==
    LET i == CHOOSE j \in 1..Len(session.laps[d]) : session.laps[d][j].LapNumber = n
    IN session.laps[d][i].LapTime
\* the laps both drivers timed, up to lap n
Overlap(d, r, n) == {m \in ValidLaps(d) \cap ValidLaps(r) : m <= n}
GapSum(d, r, n) ==
    SumSeq([k \in 1..Len(SortedSeq(Overlap(d, r, n))) |->
              ValidTime(d, SortedSeq(Overlap(d, r, n))[k])
                - ValidTime(r, SortedSeq(Overlap(d, r, n))[k])])

\* C3: every point (n, g) of an emitted series has g equal to the sum of
\* (driver time - reference time) over the laps <= n that both drivers timed;
\* the last point carries the sum over all such laps.
C3_CumulativeGapIsSum ==
    gap_chart.called =>
        \A k \in 1..Len(gap_chart.traces) :
            LET t == gap_chart.traces[k]
                r == gap_chart.reference
            IN /\ \A i \in 1..Len(t.gaps) :
                     t.gaps[i] = GapSum(t.Driver, r, t.lap_numbers[i])
               /\ t.gaps[Len(t.gaps)] = GapSum(t.Driver, r, MaxLap)

\* a series whose driver skipped a lap the reference timed, ending on a
\* non-zero total
C3_Witness ==
    /\ gap_chart.called
    /\ \E k \in 1..Len(gap_chart.traces) :
         LET t == gap_chart.traces[k]
         IN /\ Len(t.gaps) = 2
            /\ t.lap_numbers[2] - t.lap_numbers[1] = 2
            /\ t.gaps[2] # 0
            /\ t.gaps[2] # t.gaps[1]

\* C4: with no reference supplied, or one that is not in the frame, the
\* reference is a driver with the most laps at position 1 when the frame has
\* positions and some driver led a lap, and otherwise a driver with the lowest
\* mean lap time.
C4_ReferenceFallbackChain ==
    (gap_chart.called
        /\ (gap_chart.supplied = None
              \/ gap_chart.supplied \notin DriversIn(lap_data.rows))) =>
        LET rows == lap_data.rows
            led(d) == Cardinality({i \in 1..Len(rows) :
                          rows[i].Driver = d /\ rows[i].Position = 1})
            someLed == session.hasPosition /\ \E d \in DriversIn(rows) : led(d) > 0
            r == gap_chart.reference
        IN IF someLed
           THEN \A d \in DriversIn(rows) : led(d) <= led(r)
           ELSE \A d \in DriversIn(rows) : ~mean_less(rows, d, r)

\* C5: the loop emits a point for a compared driver at lap n exactly when the
\* driver and the reference both timed lap n, in ascending lap order, and each
\* point adds that lap's difference to the previous point's value.
C5_PointsOnlyAtMatchedLaps ==
    gap_chart.called =>
        \A k \in 1..Len(gap_chart.points) :
            LET t == gap_chart.points[k]
                r == gap_chart.reference
                diff(n) == ValidTime(t.Driver, n) - ValidTime(r, n)
            IN /\ Range(t.lap_numbers) = ValidLaps(t.Driver) \cap ValidLaps(r)
               /\ Len(t.gaps) = Len(t.lap_numbers)
               /\ \A i \in 1..Len(t.lap_numbers) :
                     /\ i > 1 => t.lap_numbers[i - 1] < t.lap_numbers[i]
                     /\ t.gaps[i] = (IF i = 1 THEN 0 ELSE t.gaps[i - 1])
                                      + diff(t.lap_numbers[i])

\* the driver has a row without a lap time at a lap the reference timed, and
\* points exist on both sides of that lap
C5_Witness ==
    /\ gap_chart.called
    /\ \E k \in 1..Len(gap_chart.points) :
         LET t == gap_chart.points[k]
             r == gap_chart.reference
         IN /\ Len(t.lap_numbers) >= 2
            /\ \E i \in 1..Len(session.laps[t.Driver]) :
                  /\ session.laps[t.Driver][i].LapTime = NaT
                  /\ session.laps[t.Driver][i].LapNumber \in ValidLaps(r)
                  /\ session.laps[t.Driver][i].LapNumber > t.lap_numbers[1]
                  /\ session.laps[t.Driver][i].LapNumber < t.lap_numbers[Len(t.lap_numbers)]

(***************************************************************************)
(* Summary metrics.                                                        *)
(***************************************************************************)
InitSummary ==
    /\ TimingSession
    /\ drivers \in {<<"HAM", "VER">>, <<"VER">>}
    /\ Idle

NextSummary == get_lap_data \/ create_summary_metrics

SpecSummary == InitSummary /\ [][NextSummary]_vars

\* C9: whenever the lap frame holds a timed lap, create_summary_metrics returns
\* fastest_lap and fastest_average, and a driver it names most consistent has
\* at least two timed laps; so too when every driver has exactly one.
C9_SingleLapDriversDoNotFail ==
    (metrics.called /\ lap_data.rows # <<>>) =>
        /\ {"fastest_lap", "fastest_average"} \subseteq metrics.keys
        /\ metrics.errors = 0
        /\ metrics.most_consistent.driver \in DriversIn(lap_data.rows)
              => Cardinality(ValidLaps(metrics.most_consistent.driver)) >= 2

(***************************************************************************)
(* Strategy Simulator.                                                     *)
(***************************************************************************)
InitSim ==
    /\ session = NoSession
    /\ drivers = <<>>
    /\ lap_data = NotCalled
    /\ strategy_data = NotCalled
    /\ strategy_chart = NoChart
    /\ strategy_stats = NoStats
    /\ gap_chart = NoGapChart
    /\ metrics = NoMetrics
    /\ sim_in \in [sim_compound : SimCompounds, stint_length : MinStint..MaxStint,
                   selected_circuit : Circuits, driver_simulation : Profiles]
    /\ \/ \E curve \in [1..sim_in.stint_length -> PredTimes] :
             model = [outcome |-> "ok", curve |-> curve]
       \/ \E outcome \in {"transform raises", "predict raises"} :
             model = [outcome |-> outcome, curve |-> <<>>]
    /\ sim_out = NoRun
    /\ sim_log = <<>>
    /\ telemetry = NoTelemetry
    /\ main = NoMain

NextSim == RunSimulation

SpecSim == InitSim /\ [][NextSim]_vars

\* C7: when the transform or the predict call raises, the click reports one
\* error and shows no part of the result.
C7_FailureGivesOneErrorNoOutput ==
    (sim_out.ran /\ model.outcome # "ok") =>
        /\ sim_out.errors = 1
        /\ sim_out.shown = {}
        /\ sim_out.predictions = <<>>

C7_Witness ==
    /\ sim_out.ran
    /\ model.outcome = "predict raises"
    /\ sim_out.predict_calls # <<>>

\* C8 as stated: every click invokes predict exactly once, on a batch of
\* stint_length rows.
C8_PredictOnceEveryRequest ==
    sim_out.ran => sim_out.predict_calls = <<sim_in.stint_length>>

\* C8 amended: a click whose transform does not raise invokes predict exactly
\* once, on a batch of stint_length rows; a click whose transform raises does
\* not invoke it; predict is never invoked on a single lap's row.
C8_PredictOnceUnlessTransformRaises ==
    sim_out.ran =>
        /\ sim_out.transform_calls = <<sim_in.stint_length>>
        /\ IF model.outcome = "transform raises"
           THEN sim_out.predict_calls = <<>>
           ELSE sim_out.predict_calls = <<sim_in.stint_length>>

C8_Witness ==
    /\ sim_out.ran
    /\ model.outcome = "ok"
    /\ sim_in.stint_length > MinStint
    /\ sim_out.predict_calls = <<sim_in.stint_length>>
    /\ Len(sim_out.predictions) = sim_in.stint_length

(***************************************************************************)
(* Lap records: get_lap_data on sessions in which a selected driver may    *)
(* have no rows ("ALO"), only rows without a lap time, or no driver        *)
(* information (get_driver raises).                                        *)
(***************************************************************************)
LapsSession ==
    \E h \in [1..MaxLap -> SteadyCells] :
      \E v \in [1..MaxLap -> LapCells] :
        \E noInfo \in {{}, {"HAM"}} :
          session =
            [isNone |-> FALSE, hasPosition |-> FALSE, noDriverInfo |-> noInfo,
             laps |-> [d \in {"HAM", "VER"} |->
                         RowsFromCells(IF d = "HAM" THEN h ELSE v,
                                       [n \in 1..MaxLap |-> NoPosition])]]

InitLaps ==
    /\ LapsSession
    /\ drivers \in {<<"HAM", "VER">>, <<"VER", "HAM">>, <<"VER">>, <<"ALO", "VER">>}
    /\ Idle

NextLaps == get_lap_data

SpecLaps == InitLaps /\ [][NextLaps]_vars

\* the rows the session holds for driver d (none for a driver it does not know)
SessionRows(d) == IF session.isNone THEN <<>> ELSE pick_drivers(session, d)
\* the lap numbers at which d has a row with a lap time in the session
TimedLaps(d) ==
    {SessionRows(d)[i].LapNumber :
        i \in {j \in 1..Len(SessionRows(d)) : SessionRows(d)[j].LapTime # NaT}}
\* the lap time of d's row for lap n
TimeAt(d, n) ==
    LET i == CHOOSE j \in 1..Len(SessionRows(d)) : SessionRows(d)[j].LapNumber = n
    IN SessionRows(d)[i].LapTime
\* the frame holds a record of d's lap n with the session's lap time
HasRecord(d, n) ==
    \E i \in 1..Len(lap_data.rows) :
        /\ lap_data.rows[i].Driver = d
        /\ lap_data.rows[i].LapNumber = n
        /\ lap_data.rows[i].LapTimeSeconds = TimeAt(d, n)
\* every timed lap of every selected driver other than b is in the frame
OthersProduced(b) ==
    \A d \in Range(drivers) \ {b} : \A n \in TimedLaps(d) : HasRecord(d, n)
\* d has no timed lap: no rows at all, or only rows without a lap time
Rowless(d) == TimedLaps(d) = {}
\* processing d raises: d has rows and the session has no information on d
ProcessingFails(d) == SessionRows(d) # <<>> /\ d \in session.noDriverInfo

C13_GapToSessionFastest ==
    (lap_data.called /\ lap_data.rows # <<>>) =>
        \A i \in 1..Len(lap_data.rows) :
            /\ lap_data.rows[i].GapToFastest
                  = lap_data.rows[i].LapTimeSeconds
                      - Min(UNION {{TimeAt(d, n) : n \in TimedLaps(d)} :
                                      d \in DOMAIN session.laps})
            /\ lap_data.rows[i].GapToFastest >= 0

(***************************************************************************)
(* Gap analysis: series, reference and the outcome without a series.       *)
(***************************************************************************)
\* the laps driver d and the reference r both timed
Matched(d, r) == ValidLaps(d) \cap ValidLaps(r)
\* the traces drawn for driver d
TracesOf(d) == SelectSeq(gap_chart.traces, LAMBDA t : t.Driver = d)

\* C14: a driver of the frame other than the reference has a series exactly
\* when at least two of its lap numbers are matched with the reference, and
\* then has one series; the reference has none.
C14_SeriesIffTwoMatchedLaps ==
    gap_chart.called =>
        /\ \A d \in DriversIn(lap_data.rows) \ {gap_chart.reference} :
              /\ TracesOf(d) # <<>> <=> Cardinality(Matched(d, gap_chart.reference)) >= 2
              /\ Len(TracesOf(d)) <= 1
        /\ TracesOf(gap_chart.reference) = <<>>
        /\ \A k \in 1..Len(gap_chart.traces) :
              gap_chart.traces[k].Driver \in DriversIn(lap_data.rows)

\* a compared driver with exactly one matched lap: a point, and no series
C14_Witness ==
    /\ gap_chart.called
    /\ \E d \in DriversIn(lap_data.rows) \ {gap_chart.reference} :
         /\ Cardinality(Matched(d, gap_chart.reference)) = 1
         /\ Cardinality(ValidLaps(d)) >= 2
         /\ TracesOf(d) = <<>>

\* C15: a supplied reference that is in the frame is the reference used, and
\* the "reference adjusted" notice is given exactly when the supplied
\* reference is missing or not in the frame and another driver was resolved.
C15_SuppliedReferenceKept ==
    gap_chart.called =>
        LET absent == gap_chart.supplied = None
                        \/ gap_chart.supplied \notin DriversIn(lap_data.rows)
        IN /\ ~absent => gap_chart.reference = gap_chart.supplied
           /\ gap_chart.reference \in DriversIn(lap_data.rows)
           /\ gap_chart.adjusted_notices \in {0, 1}
           /\ gap_chart.adjusted_notices = 1
                <=> (absent /\ gap_chart.reference # gap_chart.supplied)

\* the supplied driver is kept, without a notice, although it is neither the
\* first driver of the frame nor a driver that led a lap
C15_Witness ==
    /\ gap_chart.called
    /\ gap_chart.supplied \in DriversIn(lap_data.rows)
    /\ gap_chart.supplied # available_drivers(lap_data.rows)[1]
    /\ gap_chart.reference = gap_chart.supplied
    /\ gap_chart.adjusted_notices = 0
    /\ session.hasPosition
    /\ leaders(lap_data.rows) # {}
    /\ gap_chart.supplied \notin leaders(lap_data.rows)

ReadTime(formatted) == formatted.minutes * 600 + formatted.seconds

\* C17: the fastest_lap that create_summary_metrics reports has a time that is
\* at most every lap time of the frame, and the driver and lap number reported
\* with it are those of a row that has exactly that time.
C17_FastestLapIsMinimum ==
    (metrics.called /\ "fastest_lap" \in metrics.keys) =>
        LET t == ReadTime(metrics.fastest_lap.time)
        IN /\ metrics.fastest_lap.time.text # "N/A"
           /\ \A i \in 1..Len(lap_data.rows) : t <= lap_data.rows[i].LapTimeSeconds
           /\ \E i \in 1..Len(lap_data.rows) :
                 /\ lap_data.rows[i].Driver = metrics.fastest_lap.driver
                 /\ lap_data.rows[i].LapNumber = metrics.fastest_lap.lap
                 /\ lap_data.rows[i].LapTimeSeconds = t

\* the fastest lap is the second driver's, on a lap after the first, with
\* slower laps before it in the frame
C17_Witness ==
    /\ metrics.called
    /\ "fastest_lap" \in metrics.keys
    /\ metrics.fastest_lap.driver = "VER"
    /\ metrics.fastest_lap.lap > 1
    /\ ReadTime(metrics.fastest_lap.time) < lap_data.rows[1].LapTimeSeconds
    /\ lap_data.rows[1].Driver = "HAM"

(***************************************************************************)
(* Strategy Simulator: feature rows, skill adjustment, performance cliff.  *)
(***************************************************************************)
\* C18: a click builds stint_length feature rows, row i with TyreAge i and
\* LapNumber base_lap_number + i; the predictions and the lap-by-lap table of
\* a successful click have stint_length entries, entry i being stint lap i.
C18_OneRowPerStintLap ==
    sim_out.ran =>
        /\ Len(sim_out.rows) = sim_in.stint_length
        /\ \A i \in 1..Len(sim_out.rows) :
              /\ sim_out.rows[i].TyreAge = i
              /\ sim_out.rows[i].LapNumber = base_lap_number + i
        /\ model.outcome = "ok" =>
              /\ Len(sim_out.predictions) = sim_in.stint_length
              /\ Len(sim_out.prediction_df) = sim_in.stint_length
              /\ \A i \in 1..Len(sim_out.prediction_df) :
                    /\ sim_out.prediction_df[i].StintLap = i
                    /\ sim_out.prediction_df[i].TyreAge = sim_out.rows[i].TyreAge
                    /\ sim_out.prediction_df[i].RaceLap = sim_out.rows[i].LapNumber
                    /\ sim_out.prediction_df[i].PredictedTime = sim_out.predictions[i]

C18_Witness ==
    /\ sim_out.ran
    /\ model.outcome = "ok"
    /\ sim_in.stint_length = MaxStint
    /\ Len(sim_out.prediction_df) = MaxStint
    /\ sim_out.rows[MaxStint].LapNumber = base_lap_number + MaxStint

\* C19: every adjusted prediction is the model's prediction for that lap times
\* one factor, 0.995 for Championship Contender, 1.005 for Rookie and 1.0 for
\* Average Driver, whatever the lap, compound, circuit and stint length; and
\* the feature rows are the same for every profile.
C19_UniformSkillFactor ==
    (sim_out.ran /\ model.outcome = "ok") =>
        LET factor == CASE sim_in.driver_simulation = "Championship Contender" -> 995
                        [] sim_in.driver_simulation = "Rookie" -> 1005
                        [] sim_in.driver_simulation = "Average Driver" -> 1000
        IN /\ \A i \in 1..sim_in.stint_length :
                 sim_out.predictions[i] = model.curve[i] * factor
           /\ \A profile \in Profiles :
                 sim_out.rows = sim_df([sim_in EXCEPT !.driver_simulation = profile])
           /\ \A i \in 1..Len(sim_out.rows) :
                 sim_out.rows[i].DriverID = "Average"

C19_Witness ==
    /\ sim_out.ran
    /\ model.outcome = "ok"
    /\ sim_in.driver_simulation = "Rookie"
    /\ \E i, j \in 1..sim_in.stint_length :
          /\ model.curve[i] # model.curve[j]
          /\ sim_out.predictions[i] > model.curve[i] * 1000
          /\ sim_out.predictions[j] > model.curve[j] * 1000

\* C20: the performance cliff reported is the first stint lap whose adjusted
\* prediction exceeds the first lap's by more than one second, and "Beyond
\* stint" exactly when no lap does; a lap exactly one second slower is no cliff.
C20_CliffIsFirstLapOverThreshold ==
    (sim_out.ran /\ model.outcome = "ok") =>
        LET p == sim_out.predictions
            over(i) == p[i] > p[1] + OneSecond
        IN /\ sim_out.cliff = BeyondStint <=> \A i \in 1..Len(p) : ~over(i)
           /\ sim_out.cliff # BeyondStint =>
                 /\ sim_out.cliff \in 1..Len(p)
                 /\ over(sim_out.cliff)
                 /\ \A j \in 1..(sim_out.cliff - 1) : ~over(j)

\* a lap exactly one second slower than the first precedes the cliff lap
C20_Witness ==
    /\ sim_out.ran
    /\ model.outcome = "ok"
    /\ sim_out.cliff # BeyondStint
    /\ \E j \in 1..(sim_out.cliff - 1) :
          sim_out.predictions[j] = sim_out.predictions[1] + OneSecond

(***************************************************************************)
(* Strategy Simulator: the statistics of a run.                            *)
(***************************************************************************)
\* text (a count of units of `unit` ten-thousandths) shows value: it is off by
\* at most half of its last digit
Shows(text, value, unit) ==
    /\ 2 * (text * unit - value) <= unit
    /\ 2 * (value - text * unit) <= unit

\* C21: on the adjusted curve p of a successful run, the total degradation is
\* the last prediction minus the first, the average degradation per lap is the
\* total divided by stint_length, and the time lost at lap i is the sum over
\* the laps up to i of (p[j] - p[first]), which is 0 at the first lap; each is
\* shown rounded to its last displayed digit.
C21_DegradationStatistics ==
    (sim_out.ran /\ model.outcome = "ok") =>
        LET p == sim_out.predictions
            n == sim_in.stint_length
            r == sim_out.results
        IN /\ r.total = p[n] - p[1]
           /\ Shows(r.total_text, r.total, 10)
           /\ r.average.num = r.total /\ r.average.den = n
           /\ 2 * (r.average_text * n - r.total) <= n
           /\ 2 * (r.total - r.average_text * n) <= n
           /\ sim_out.prediction_df[1].TimeLost = 0
           /\ \A i \in 1..n :
                 /\ sim_out.prediction_df[i].TimeLost
                       = SumSeq([j \in 1..i |-> p[j] - p[1]])
                 /\ Shows(sim_out.prediction_df[i].TimeLostText,
                          sim_out.prediction_df[i].TimeLost, 10)

\* a curve that rises and falls back: the time lost keeps growing while the
\* total degradation is zero, and some text is a rounded value
C21_Witness ==
    /\ sim_out.ran
    /\ model.outcome = "ok"
    /\ sim_out.results.total = 0
    /\ sim_out.prediction_df[sim_in.stint_length].TimeLost > 0
    /\ \E i \in 1..sim_in.stint_length :
          sim_out.prediction_df[i].TimeLostText * 10 # sim_out.prediction_df[i].TimeLost

(***************************************************************************)
(* A five-lap race: VER runs laps 1 to 5, each on SOFT or MEDIUM, each     *)
(* with or without a lap time.                                             *)
(***************************************************************************)
FiveLapSession ==
    \E cs \in [1..5 -> RealCompounds] :
      \E ts \in [1..5 -> {NaT, 900}] :
        session =
          [isNone |-> FALSE, hasPosition |-> FALSE, noDriverInfo |-> {},
           laps |-> [d \in {"HAM", "VER"} |->
              IF d = "HAM" THEN HamRows
              ELSE [i \in 1..5 |-> LapRow(i, ts[i], cs[i], NoPosition)]]]

InitFiveLaps ==
    /\ FiveLapSession
    /\ drivers = <<"HAM", "VER">>
    /\ Idle

NextFiveLaps == get_lap_data \/ get_strategy_data \/ plot_tyre_strategy

SpecFiveLaps == InitFiveLaps /\ [][NextFiveLaps]_vars

\* the compounds and lap times of VER's rows in the session, in row order
CompoundsOf(d) == [i \in 1..Len(session.laps[d]) |-> session.laps[d][i].Compound]
AllTimed(d) == \A i \in 1..Len(session.laps[d]) : session.laps[d][i].LapTime # NaT
\* the TyreAge column of d's rows in a frame
AgesOf(rows, d) == [i \in 1..Len(RowsOf(rows, d)) |-> RowsOf(rows, d)[i].TyreAge]

\* C22: with compounds SOFT, SOFT, SOFT, MEDIUM, MEDIUM on laps 1 to 5, the
\* tyre ages are 1, 2, 3, 1, 2 and the stints are exactly (SOFT, 1, 3) of
\* length 3 and (MEDIUM, 4, 5) of length 2.
C22_ScenarioTwoStints ==
    (CompoundsOf("VER") = <<"SOFT", "SOFT", "SOFT", "MEDIUM", "MEDIUM">>
        /\ AllTimed("VER")) =>
        /\ lap_data.called => AgesOf(lap_data.rows, "VER") = <<1, 2, 3, 1, 2>>
        /\ strategy_data.called =>
              AgesOf(strategy_data.rows, "VER") = <<1, 2, 3, 1, 2>>
        /\ strategy_chart.called =>
              RowsOf(strategy_chart.bars, "VER")
                = <<[Driver |-> "VER", Compound |-> "SOFT", StartLap |-> 1, EndLap |-> 3],
                    [Driver |-> "VER", Compound |-> "MEDIUM", StartLap |-> 4, EndLap |-> 5]>>

\* the length of the longest run of consecutive rows on one compound
LongestRun(driver_data) ==
    LET run(i, j) == \A k \in i..j : driver_data[k].Compound = driver_data[i].Compound
        runs == {ij \in (1..Len(driver_data)) \X (1..Len(driver_data)) :
                    ij[1] <= ij[2] /\ run(ij[1], ij[2])}
        lengths == {ij[2] - ij[1] + 1 : ij \in runs}
    IN CHOOSE m \in lengths : \A k \in lengths : k <= m

\* C27: in the Strategy Statistics table a driver's Pit Stops is the number of
\* compound changes between consecutive laps of that driver, also after a
\* return to a compound used earlier, and Longest Stint is the length of the
\* driver's longest run of consecutive laps on one compound.
C27_PitStopsAreCompoundChanges ==
    strategy_stats.shown =>
        \A k \in 1..Len(strategy_stats.table) :
            LET row == strategy_stats.table[k]
                driver_data == RowsOf(strategy_data.rows, row.Driver)
            IN /\ row.PitStops = pit_stops_changes(driver_data)
               /\ row.LongestStint = LongestRun(driver_data)

\* C28: the chart made from a non-empty result of get_strategy_data reports no
\* error and has at least one stint bar for every driver with rows.
C28_ChartHasBarsForEveryDriver ==
    (strategy_chart.called /\ strategy_data.rows # <<>>) =>
        /\ strategy_chart.errors = 0
        /\ \A d \in DriversIn(strategy_data.rows) :
              RowsOf(strategy_chart.bars, d) # <<>>

\* C26: a lap of a driver that is in the frame of get_lap_data and in the frame
\* of get_strategy_data has the same tyre age in both.
C26_SameTyreAgeInBothFrames ==
    (lap_data.called /\ strategy_data.called) =>
        \A i \in 1..Len(lap_data.rows) : \A j \in 1..Len(strategy_data.rows) :
            (lap_data.rows[i].Driver = strategy_data.rows[j].Driver
                /\ lap_data.rows[i].LapNumber = strategy_data.rows[j].LapNumber)
              => lap_data.rows[i].TyreAge = strategy_data.rows[j].TyreAge

(***************************************************************************)
(* A three-lap race without a Position column: HAM and VER time every lap. *)
(***************************************************************************)
ScenarioTimes == {895, 900, 905, 910}

ThreeLapSession ==
    \E h \in [1..3 -> ScenarioTimes] :
      \E v \in [1..3 -> ScenarioTimes] :
        session =
          [isNone |-> FALSE, hasPosition |-> FALSE, noDriverInfo |-> {},
           laps |-> [d \in {"HAM", "VER"} |->
              [i \in 1..3 |-> LapRow(i, IF d = "HAM" THEN h[i] ELSE v[i],
                                     "SOFT", NoPosition)]]]

InitThreeLaps ==
    /\ ThreeLapSession
    /\ drivers \in {<<"HAM", "VER">>, <<"VER", "HAM">>}
    /\ Idle

NextThreeLaps == get_lap_data \/ plot_gap_analysis

SpecThreeLaps == InitThreeLaps /\ [][NextThreeLaps]_vars

\* driver d's lap times in the session, in row order
TimesOf(d) == [i \in 1..Len(session.laps[d]) |-> session.laps[d][i].LapTime]
\* the scenario: a laps 90.0, 91.0, 89.5 and b laps 90.5, 90.5, 90.0
Scenario23(a, b) ==
    /\ TimesOf(a) = <<900, 910, 895>>
    /\ TimesOf(b) = <<905, 905, 900>>

\* C23: with lap times 90.0, 91.0, 89.5 for one driver and 90.5, 90.5, 90.0
\* for the other on laps 1 to 3, no reference supplied and no position data,
\* the reference is the first of the two (the lower mean) and the other
\* driver's cumulative gap is 0.5, 0.0, 0.5.
C23_ScenarioCumulativeGap ==
    \A a, b \in {"HAM", "VER"} :
        (Scenario23(a, b) /\ gap_chart.called /\ gap_chart.supplied = None) =>
            /\ gap_chart.reference = a
            /\ gap_chart.traces
                  = <<[Driver |-> b, lap_numbers |-> <<1, 2, 3>>, gaps |-> <<5, 0, 5>>]>>

\* the scenario's chart, drawn without a reference, where the reference found
\* is not the first of the selected drivers
C23_Witness ==
    /\ Scenario23("VER", "HAM")
    /\ drivers = <<"HAM", "VER">>
    /\ gap_chart.called
    /\ gap_chart.supplied = None
    /\ gap_chart.reference = "VER"
    /\ Len(gap_chart.traces) = 1

(***************************************************************************)
(* The simulator at the slider's default stint length, against a model     *)
(* whose curve is flat or steps up once.                                   *)
(***************************************************************************)
\* the slider's default stint length
DefaultStint == 20
FlatTimes == 846..854
Steps == {0, 12}

StepCurve(base, step) ==
    [i \in 1..DefaultStint |-> IF 2 * i > DefaultStint THEN base + step ELSE base]

InitDefaultStint ==
    /\ session = NoSession
    /\ drivers = <<>>
    /\ lap_data = NotCalled
    /\ strategy_data = NotCalled
    /\ strategy_chart = NoChart
    /\ strategy_stats = NoStats
    /\ gap_chart = NoGapChart
    /\ metrics = NoMetrics
    /\ sim_in \in [sim_compound : SimCompounds, stint_length : {DefaultStint},
                   selected_circuit : Circuits, driver_simulation : Profiles]
    /\ \E base \in FlatTimes : \E step \in Steps :
          model = [outcome |-> "ok", curve |-> StepCurve(base, step)]
    /\ sim_out = NoRun
    /\ sim_log = <<>>
    /\ telemetry = NoTelemetry
    /\ main = NoMain

NextDefaultStint == RunSimulation

SpecDefaultStint == InitDefaultStint /\ [][NextDefaultStint]_vars

\* the scenario: 20 laps, Rookie, a model returning 85.0 for every row
Scenario24 ==
    /\ sim_in.stint_length = 20
    /\ sim_in.driver_simulation = "Rookie"
    /\ model.outcome = "ok"
    /\ model.curve = [i \in 1..20 |-> 850]

\* C24: with stint_length 20, profile Rookie and a model returning 85.0 for
\* every row, the adjusted curve is 85.425 at every lap, the total
\* degradation is 0.0 and there is no performance cliff.
C24_ScenarioConstantCurve ==
    (Scenario24 /\ sim_out.ran) =>
        /\ sim_out.predictions = [i \in 1..20 |-> 854250]
        /\ \A i \in 1..20 : sim_out.prediction_df[i].PredictedTimeText = 85425
        /\ sim_out.results.total = 0
        /\ sim_out.results.total_text = 0
        /\ sim_out.cliff = BeyondStint

C24_Witness ==
    /\ Scenario24
    /\ sim_out.ran
    /\ sim_out.shown = {"curve", "confidence band", "statistics", "table"}
    /\ Len(sim_out.predictions) = 20

(***************************************************************************)
(* Repeated runs of the simulator: between two clicks the driver profile   *)
(* may be changed, which reruns the script with the button not pressed.    *)
(***************************************************************************)
\* a change of the Driver Profile selectbox: the script reruns, st.button
\* returns False and the results block is not rendered
SelectDriverProfile ==
    /\ \E p \in Profiles \ {sim_in.driver_simulation} :
          sim_in' = [sim_in EXCEPT !.driver_simulation = p]
    /\ sim_out' = NoRun
    /\ UNCHANGED <<session, drivers, lap_data, strategy_data, strategy_chart,
                   strategy_stats, gap_chart, metrics, model, sim_log,
                   telemetry, main>>

InitRerun ==
    /\ InitSim
    /\ sim_in.sim_compound = "SOFT"
    /\ sim_in.selected_circuit = "Bahrain Grand Prix"
    /\ sim_in.stint_length = MinStint

NextRerun == RunSimulation \/ SelectDriverProfile

SpecRerun == InitRerun /\ [][NextRerun]_vars

\* what a click recorded in sim_log showed: the adjusted curve, the
\* statistics, the cliff and the table
Shown(entry) ==
    [predictions |-> entry.sim_out.predictions,
     results |-> entry.sim_out.results,
     cliff |-> entry.sim_out.cliff,
     prediction_df |-> entry.sim_out.prediction_df,
     errors |-> entry.sim_out.errors]

TelemetrySessions ==
    UNION {{[isNone |-> FALSE, hasPosition |-> FALSE, noDriverInfo |-> {},
             laps |-> [d \in {"HAM", "VER"} |->
                IF d = "HAM" THEN HamRows
                ELSE [i \in 1..n |-> LapRow(ls[i], 900, "SOFT", NoPosition)]]]
            : ls \in InjSeqs(1..MaxRows, n)} : n \in 0..MaxRows}

TelemetrySession == session \in TelemetrySessions

InitTelemetry ==
    /\ (TelemetrySession \/ session = NoSession)
    /\ drivers = <<"HAM", "VER">>
    /\ Idle

NextTelemetry == get_telemetry_data

SpecTelemetry == InitTelemetry /\ [][NextTelemetry]_vars

\* C29: the call returns the car data of the driver's lap numbered
\* lap_number when the driver has that lap, and an empty frame when the
\* driver has no lap of that number.
C29_TelemetryOfTheLapNumbered ==
    (telemetry.called /\ ~session.isNone) =>
        LET has == lap_by_number(pick_drivers(session, telemetry.driver),
                                 telemetry.lap_number) # <<>>
        IN /\ (has /\ telemetry.car_data = "samples") =>
                 /\ ~telemetry.result.empty
                 /\ telemetry.result.LapNumber = telemetry.lap_number
           /\ ~has => telemetry.result.empty

(***************************************************************************)
(* One run of main(): the sidebar (year and schedule, race, session,       *)
(* driver list, driver selection), each with its st.stop(), then           *)
(* get_session_info and the tabs. The tabs are taken in any order.         *)
(***************************************************************************)
MainStart ==
    [pc |-> "get_race_schedule", passed |-> <<>>, analysis |-> {}, messages |-> <<>>]

\* st.error / st.info / st.warning followed by st.stop()
stop(m, message) == [m EXCEPT !.pc = "stopped", !.messages = Append(@, message)]
\* the run goes on to the next step
pass(m, check, next) == [m EXCEPT !.pc = next, !.passed = Append(@, check)]

\* a test of the selection that lets every selection through
no_driver_selected_skipped(selected_drivers_idx) == FALSE

\* line 136: len(selected_drivers_idx) == 0
no_driver_selected(selected_drivers_idx) == Len(selected_drivers_idx) = 0

\* get_driver_list(session): [] for None and on an exception, else one entry
\* per driver of the session
driver_lists(sess) ==
    IF sess.isNone THEN {<<>>} ELSE {<<>>, <<"HAM", "VER">>}

\* lines 67-80: the year's schedule, [] when the provider fails
main_get_race_schedule ==
    /\ main.pc = "get_race_schedule"
    /\ \E races \in {<<>>, <<"Bahrain Grand Prix", "Monaco Grand Prix">>} :
          main' = IF races = <<>>
                  THEN stop(main, "No races available for the selected year.")
                  ELSE pass(main, "schedule", "select_race")
    /\ UNCHANGED <<session, drivers, lap_data, strategy_data, strategy_chart,
                   strategy_stats, gap_chart, metrics, sim_in, model, sim_out,
                   sim_log, telemetry>>

\* lines 82-96: the race selectbox starts without a selection
main_select_race ==
    /\ main.pc = "select_race"
    /\ \E selected_race_idx \in {None, "0", "1"} :
          main' = IF selected_race_idx = None
                  THEN stop(main, "Please select a race to continue.")
                  ELSE pass(main, "race", "load_race_data")
    /\ UNCHANGED <<session, drivers, lap_data, strategy_data, strategy_chart,
                   strategy_stats, gap_chart, metrics, sim_in, model, sim_out,
                   sim_log, telemetry>>

\* lines 98-102: load_race_data returns the session, or None on an exception
main_load_race_data ==
    /\ main.pc = "load_race_data"
    /\ session' \in TelemetrySessions \cup {NoSession}
    /\ main' = IF session'.isNone
               THEN stop(main, "Could not load race data. Please try a different race.")
               ELSE pass(main, "session", "get_driver_list")
    /\ UNCHANGED <<drivers, lap_data, strategy_data, strategy_chart,
                   strategy_stats, gap_chart, metrics, sim_in, model, sim_out,
                   sim_log, telemetry>>

\* lines 104-107
main_get_driver_list ==
    /\ main.pc = "get_driver_list"
    /\ \E drivers_info \in driver_lists(session) :
          main' = IF drivers_info = <<>>
                  THEN stop(main, "No driver data available for this race.")
                  ELSE pass(main, "driver_list", "select_drivers")
    /\ UNCHANGED <<session, drivers, lap_data, strategy_data, strategy_chart,
                   strategy_stats, gap_chart, metrics, sim_in, model, sim_out,
                   sim_log, telemetry>>

\* lines 109-140: the multiselect and selected_drivers
main_select_drivers ==
    /\ main.pc = "select_drivers"
    /\ \E selected \in {<<>>, <<"HAM">>, <<"VER">>, <<"HAM", "VER">>, <<"VER", "HAM">>} :
          /\ drivers' = selected
          /\ main' = IF no_driver_selected(selected)
                     THEN stop(main, "Please select at least one driver.")
                     ELSE pass(main, "drivers", "get_session_info")
    /\ UNCHANGED <<session, lap_data, strategy_data, strategy_chart,
                   strategy_stats, gap_chart, metrics, sim_in, model, sim_out,
                   sim_log, telemetry>>

\* lines 152-159: get_session_info returns {} when reading the event raises,
\* and the banner's session_info['event_name'] then ends the run with KeyError
main_get_session_info ==
    /\ main.pc = "get_session_info"
    /\ \E info_read \in BOOLEAN :
          main' = [main EXCEPT !.pc = IF info_read THEN "tabs" ELSE "raised",
                               !.analysis = @ \cup {"get_session_info"}]
    /\ UNCHANGED <<session, drivers, lap_data, strategy_data, strategy_chart,
                   strategy_stats, gap_chart, metrics, sim_in, model, sim_out,
                   sim_log, telemetry>>

\* line 165, line 345 and line 398
tab_pace == main.pc = "tabs" /\ get_lap_data
tab_strategy == main.pc = "tabs" /\ get_strategy_data
tab_telemetry == main.pc = "tabs" /\ get_telemetry_data
\* line 458
tab_race_results ==
    /\ main.pc = "tabs"
    /\ main' = [main EXCEPT !.analysis = @ \cup {"get_race_results"}]
    /\ UNCHANGED <<session, drivers, lap_data, strategy_data, strategy_chart,
                   strategy_stats, gap_chart, metrics, sim_in, model, sim_out,
                   sim_log, telemetry>>

InitMain ==
    /\ session = NoSession
    /\ drivers = <<>>
    /\ lap_data = NotCalled
    /\ strategy_data = NotCalled
    /\ strategy_chart = NoChart
    /\ strategy_stats = NoStats
    /\ gap_chart = NoGapChart
    /\ metrics = NoMetrics
    /\ sim_in = [sim_compound |-> "SOFT", stint_length |-> MinStint,
                 selected_circuit |-> "Bahrain Grand Prix",
                 driver_simulation |-> "Average Driver"]
    /\ model = [outcome |-> "ok", curve |-> <<>>]
    /\ sim_out = NoRun
    /\ sim_log = <<>>
    /\ telemetry = NoTelemetry
    /\ main = MainStart

NextMain ==
    \/ main_get_race_schedule
    \/ main_select_race
    \/ main_load_race_data
    \/ main_get_driver_list
    \/ main_select_drivers
    \/ main_get_session_info
    \/ tab_pace
    \/ tab_strategy
    \/ tab_telemetry
    \/ tab_race_results

SpecMain == InitMain /\ [][NextMain]_vars

\* the sidebar's conditions in the order of the code
Sidebar == <<"schedule", "race", "session", "driver_list", "drivers">>
\* an analysis operation has been called in this run
AnalysisCalled ==
    \/ main.analysis # {}
    \/ lap_data.called
    \/ strategy_data.called
    \/ telemetry.called

\* C30: the conditions are passed in the order schedule, race, session,
\* driver list, driver selection; an analysis operation is called only after
\* all five, with a session that is not None and a driver list that is not
\* empty; a run stopped at a condition has called no analysis operation.
C30_AnalysisOnlyAfterSidebar ==
    /\ main.passed = SubSeq(Sidebar, 1, Len(main.passed))
    /\ AnalysisCalled =>
          /\ main.passed = Sidebar
          /\ ~session.isNone
          /\ drivers # <<>>
    /\ main.pc = "stopped" =>
          /\ ~AnalysisCalled
          /\ Len(main.passed) < Len(Sidebar)
          /\ Len(main.messages) = 1

\* a run that reached the tabs and called every analysis operation
C30_Witness ==
    /\ main.pc = "tabs"
    /\ main.analysis = {"get_session_info", "get_race_results"}
    /\ lap_data.called
    /\ strategy_data.called
    /\ telemetry.called
    /\ drivers = <<"VER">>

====
